---- MODULE Spec2Model ----
(***************************************************************************)
(* wcam: the device-request and lifecycle coordination layer.              *)
(*                                                                         *)
(*   Manager            src/src/internal/Manager.cpp                       *)
(*   ResolutionsManager src/src/internal/ResolutionsManager.{hpp,cpp}      *)
(*   Windows backend    src/src/internal/wcam_windows.cpp                  *)
(*                                                                         *)
(* One poll thread runs Manager::thread_job; caller threads run            *)
(* open_or_get_webcam, request_a_restart_of_the_capture_if_it_exists,      *)
(* set_selected_resolution and drop their SharedWebcam handles.  A         *)
(* WebcamRequest (the "session") is a heap object owned by shared_ptr's:   *)
(* the SharedWebcam handles of the callers and, during one iteration of    *)
(* the loop of Manager::update, the local `request` of the poll thread.    *)
(***************************************************************************)
EXTENDS Integers, Sequences, FiniteSets, TLC

(***************************************************************************)
(* Bounds of the model.                                                    *)
(***************************************************************************)
\* how many WebcamRequest objects make_shared may create in one run
MaxSessions == 2
\* how many SharedWebcam handles may exist for one WebcamRequest at a time
MaxHandles == 2

DeviceIds == {"Cam-A", "Cam-B"}
\* the order in which the OS enumerator lists the devices
DeviceOrder == <<"Cam-A", "Cam-B">>

Sessions == 1..MaxSessions
\* an expired / empty weak_ptr, a null shared_ptr
NoSession == 0

(***************************************************************************)
(* Resolution: <<width, height>>.                                          *)
(***************************************************************************)
R_small == <<2, 2>>
R_big == <<4, 3>>
Resolutions == {R_small, R_big}
NoResolution == <<0, 0>>

width(r) == r[1]
height(r) == r[2]
pixels_count(r) == r[1] * r[2]

\* the comparator without its second line: pixels only
ResolutionBefore_pixels_only(res_a, res_b) ==
    pixels_count(res_a) > pixels_count(res_b)

\* the comparator handed to std::sort in grab_all_infos
ResolutionBefore(res_a, res_b) ==
    \/ pixels_count(res_a) > pixels_count(res_b)
    \/ (pixels_count(res_a) = pixels_count(res_b) /\ width(res_a) > width(res_b))

RECURSIVE SortInsert(_, _)
SortInsert(r, sorted) ==
    IF sorted = <<>> THEN <<r>>
    ELSE IF ResolutionBefore(r, Head(sorted)) THEN <<r>> \o sorted
    ELSE <<Head(sorted)>> \o SortInsert(r, Tail(sorted))

\* std::sort(resolutions.begin(), resolutions.end(), comparator)
RECURSIVE std_sort(_)
std_sort(l) == IF l = <<>> THEN <<>> ELSE SortInsert(Head(l), std_sort(Tail(l)))

\* resolutions.erase(std::unique(...), resolutions.end()): drops every element
\* equal to its predecessor
RECURSIVE std_unique(_)
std_unique(l) ==
    IF Len(l) <= 1 THEN l
    ELSE IF l[1] = l[2] THEN std_unique(Tail(l))
    ELSE <<l[1]>> \o std_unique(Tail(l))

(***************************************************************************)
(* Enumeration.                                                            *)
(***************************************************************************)
\* what get_video_parameters may report for one device
ReportedResolutions == { <<>>, <<R_small, R_big, R_big>> }

\* grab_all_infos_impl without `if (!available_resolutions.empty())`: every
\* attached device is listed, with whatever it reports
RECURSIVE grab_all_infos_impl_lists_every_device(_, _, _)
grab_all_infos_impl_lists_every_device(attached, reported, i) ==
    IF i > Len(DeviceOrder) THEN <<>>
    ELSE LET d == DeviceOrder[i]
             rest == grab_all_infos_impl_lists_every_device(attached, reported, i + 1)
         IN  IF d \in attached
             THEN <<[id |-> d, resolutions |-> reported[d]]>> \o rest
             ELSE rest

\* grab_all_infos_impl: one Info per attached device, in OS order; a device
\* that reports no resolution is not listed
RECURSIVE grab_all_infos_impl(_, _, _)
grab_all_infos_impl(attached, reported, i) ==
    IF i > Len(DeviceOrder) THEN <<>>
    ELSE LET d == DeviceOrder[i]
             rest == grab_all_infos_impl(attached, reported, i + 1)
         IN  IF d \in attached /\ reported[d] # <<>>
             THEN <<[id |-> d, resolutions |-> reported[d]]>> \o rest
             ELSE rest

\* grab_all_infos: sorts and deduplicates the resolutions of every Info
grab_all_infos(attached, reported) ==
    LET list_webcams_infos == grab_all_infos_impl(attached, reported, 1)
    IN  [i \in 1..Len(list_webcams_infos) |->
            [id |-> list_webcams_infos[i].id,
             resolutions |-> std_unique(std_sort(list_webcams_infos[i].resolutions))]]

(***************************************************************************)
(* The values of WebcamRequest::maybe_capture().                           *)
(***************************************************************************)
CaptureNotInitYet == [tag |-> "CaptureNotInitYet", res |-> NoResolution]
Capture(r) == [tag |-> "Capture", res |-> r]
Error_WebcamUnplugged == [tag |-> "Error_WebcamUnplugged", res |-> NoResolution]
Error_WebcamAlreadyUsedInAnotherApplication ==
    [tag |-> "Error_WebcamAlreadyUsedInAnotherApplication", res |-> NoResolution]
Error_Unknown == [tag |-> "Error_Unknown", res |-> NoResolution]
\* the three alternatives of CaptureError
CaptureErrors ==
    {Error_WebcamUnplugged, Error_WebcamAlreadyUsedInAnotherApplication, Error_Unknown}
\* the memory of a WebcamRequest that was destroyed, or not created yet
NoObject == [tag |-> "none", res |-> NoResolution]

\* the local result of the try block of Manager::update
NoCapture == [tag |-> "none", value |-> NoObject]

\* an entry of the log of a pass: what update did to the object, and whether
\* the restart function wrote to the object after that
Nothing == [poller |-> "nothing", restarted |-> FALSE]
PollerDid(what) == [poller |-> what, restarted |-> FALSE]

VARIABLES
    \* ---- Manager ----
    _infos,                 \* std::vector<Info>, under _infos_mutex
    _current_requests,      \* DeviceId -> weak_ptr<WebcamRequest>, under _captures_mutex
    _wants_to_stop_thread,  \* std::atomic<bool>
    \* ---- ResolutionsManager ----
    _selected_resolutions,  \* DeviceId -> Resolution (NoResolution: no entry)
    \* ---- the WebcamRequest objects ----
    created,                \* how many make_shared<WebcamRequest> calls were made
    req_id,                 \* WebcamRequest::id()
    maybe_capture,          \* WebcamRequest::maybe_capture()
    shared_webcams,         \* how many SharedWebcam handles own the object
    destroyed,              \* how many times ~WebcamRequest ran on the object
    \* ---- the poll thread (Manager::thread_job / Manager::update) ----
    pc,                     \* position of the poll thread
    infos,                  \* the local `infos` of update
    current_requests,       \* the local copy of _current_requests
    pending,                \* the entries of the copy the for loop has yet to reach
    request,                \* the local shared_ptr `request` of the loop body
    capture,                \* what the try block produced and has yet to assign
    uncaught,               \* the exception that left thread_job, if any
    \* ---- a caller thread inside request_a_restart_of_the_capture_if_it_exists ----
    restart_request,        \* its local shared_ptr `request`; it holds _captures_mutex
    \* ---- history ----
    did,                    \* what this pass of update did to each object
    ever_plugged,           \* the object's device was in _infos since its creation
    phase,                  \* Capture / Unplugged / Capture progress of object 1
    created_at_copy,        \* `created` when the pass copied _current_requests
    \* ---- a caller thread inside set_selected_resolution ----
    set_pending,            \* the id it stored a resolution for and has yet to restart
    \* ---- threads at the grain of one mutex operation ----
    at,                     \* thread -> the statement it is at
    owner,                  \* mutex -> the thread that holds it
    \* ---- CaptureImpl ----
    _image,                 \* MaybeImage, under CaptureImpl::_mutex
    frames,                 \* how many frames the device has produced
    res,                    \* thread -> the local `res` of CaptureImpl::image
    \* ---- calls and what they returned ----
    returned

manager_vars == <<_infos, _current_requests, _wants_to_stop_thread>>
object_vars == <<created, req_id, maybe_capture, shared_webcams, destroyed>>
poller_vars == <<pc, infos, current_requests, pending, request, capture, uncaught>>
history_vars == <<did, ever_plugged, phase, created_at_copy>>
\* the state that only the finer-grained specifications below move
image_vars == <<_image, frames, res>>
ext_vars == <<set_pending, at, owner, image_vars, returned>>
vars == <<manager_vars, _selected_resolutions, object_vars, poller_vars,
          restart_request, history_vars, ext_vars>>

(***************************************************************************)
(* Ownership.                                                              *)
(***************************************************************************)
\* shared_ptr::use_count of the object
use_count(s) ==
    shared_webcams[s] + (IF request = s THEN 1 ELSE 0)
                      + (IF restart_request = s THEN 1 ELSE 0)

\* the object exists: it was created and its use count is not zero
Alive(s) == s \in 1..created /\ use_count(s) > 0

\* weak_ptr::lock(): the object if it is still owned, else null
lock(weak) == IF weak # NoSession /\ Alive(weak) THEN weak ELSE NoSession

InfoIds(list) == {list[i].id : i \in 1..Len(list)}

\* is_plugged_in that compares no id: true as soon as a device is listed
is_plugged_in_any_device(id) == Len(_infos) > 0

\* Manager::is_plugged_in
is_plugged_in(id) == \E i \in 1..Len(_infos) : _infos[i].id = id

\* default_resolution that takes the last resolution of the list
default_resolution_takes_last(id) ==
    LET found == {i \in 1..Len(_infos) : _infos[i].id = id}
        it == IF found = {} THEN 0 ELSE CHOOSE i \in found : \A j \in found : i <= j
    IN  IF it = 0 \/ _infos[it].resolutions = <<>>
        THEN <<1, 1>>
        ELSE _infos[it].resolutions[Len(_infos[it].resolutions)]

\* Manager::default_resolution
default_resolution(id) ==
    LET found == {i \in 1..Len(_infos) : _infos[i].id = id}
        it == IF found = {} THEN 0 ELSE CHOOSE i \in found : \A j \in found : i <= j
    IN  IF it = 0 \/ _infos[it].resolutions = <<>>
        THEN <<1, 1>>
        ELSE _infos[it].resolutions[1]

\* selected_resolution that never looks at _selected_resolutions
selected_resolution_ignores_the_store(id) == default_resolution(id)

\* ResolutionsManager::selected_resolution
selected_resolution(id) ==
    IF _selected_resolutions[id] # NoResolution
    THEN _selected_resolutions[id]
    ELSE default_resolution(id)

(***************************************************************************)
(* Threads, mutexes and CaptureImpl::_image, for the specifications that   *)
(* follow the code one mutex operation at a time.                          *)
(***************************************************************************)
\* the poll thread, two caller threads, and the thread on which the capture
\* device hands over its frames
Threads == {"poll", "caller1", "caller2", "device"}
\* Manager::_infos_mutex, Manager::_captures_mutex, CaptureImpl::_mutex
Mutexes == {"_infos_mutex", "_captures_mutex", "_mutex"}
\* a thread that is inside no operation
Idle == [op |-> "idle", stmt |-> 0, id |-> "none"]

\* the alternatives of MaybeImage
NoNewImageAvailableYet == [tag |-> "NoNewImageAvailableYet", frame |-> 0]
Image(n) == [tag |-> "Image", frame |-> n]
ImageError(e) == [tag |-> e.tag, frame |-> 0]

ExtInit ==
    /\ set_pending = "none"
    /\ at = [t \in Threads |-> Idle]
    /\ owner = [m \in Mutexes |-> "free"]
    /\ _image = NoNewImageAvailableYet
    /\ frames = 0
    /\ res = [t \in Threads |-> NoNewImageAvailableYet]
    /\ returned = <<>>

\* the process runs: no exception has left the poll thread (std::terminate)
Running == pc # "terminated"

Init ==
    /\ _infos = <<>>
    /\ _current_requests = [d \in DeviceIds |-> NoSession]
    /\ _wants_to_stop_thread = FALSE
    /\ _selected_resolutions = [d \in DeviceIds |-> NoResolution]
    /\ created = 0
    /\ req_id = [s \in Sessions |-> "none"]
    /\ maybe_capture = [s \in Sessions |-> NoObject]
    /\ shared_webcams = [s \in Sessions |-> 0]
    /\ destroyed = [s \in Sessions |-> 0]
    /\ pc = "check"
    /\ infos = <<>>
    /\ current_requests = [d \in DeviceIds |-> NoSession]
    /\ pending = {}
    /\ request = NoSession
    /\ capture = NoCapture
    /\ uncaught = "none"
    /\ restart_request = NoSession
    /\ did = [s \in Sessions |-> Nothing]
    /\ ever_plugged = [s \in Sessions |-> FALSE]
    /\ phase = 0
    /\ created_at_copy = 0
    /\ ExtInit

\* _captures_mutex is free: no caller thread is inside the restart function
\* (every other critical section of _captures_mutex is a single step)
captures_mutex_free == restart_request = NoSession

\* progress of an object through Capture (1), then Error_WebcamUnplugged (2),
\* then Capture again (3); any other write starts over
phase_after(p, value) ==
    IF value.tag = "Capture" THEN (IF p = 0 THEN 1 ELSE IF p = 2 THEN 3 ELSE p)
    ELSE IF value = Error_WebcamUnplugged THEN (IF p = 1 THEN 2 ELSE IF p = 0 THEN 0 ELSE p)
    ELSE 0

\* the history follows the first object only
phase_of(s, p) == IF s = 1 THEN p ELSE phase

(***************************************************************************)
(* ~WebcamRequest: the use count of object s reached zero.                 *)
(***************************************************************************)
destroy(s) ==
    /\ req_id' = [req_id EXCEPT ![s] = "none"]
    /\ maybe_capture' = [maybe_capture EXCEPT ![s] = NoObject]
    /\ destroyed' = [destroyed EXCEPT ![s] = IF @ < 2 THEN @ + 1 ELSE @]
    /\ did' = [did EXCEPT ![s] = Nothing]
    /\ ever_plugged' = [ever_plugged EXCEPT ![s] = FALSE]
    /\ phase' = phase_of(s, 0)


(***************************************************************************)
(* Caller threads.                                                         *)
(***************************************************************************)
\* open_or_get_webcam without the lookup: every call makes a new object
open_or_get_webcam_always_new(id) ==
    /\ Running
    /\ ~_wants_to_stop_thread
    /\ captures_mutex_free
    /\ LET new == created + 1
       IN  /\ created < MaxSessions
           /\ created' = new
           /\ req_id' = [req_id EXCEPT ![new] = id]
           /\ maybe_capture' = [maybe_capture EXCEPT ![new] = CaptureNotInitYet]
           /\ shared_webcams' = [shared_webcams EXCEPT ![new] = 1]
           /\ _current_requests' = [_current_requests EXCEPT ![id] = new]
           /\ ever_plugged' = [ever_plugged EXCEPT ![new] = is_plugged_in(id)]
    /\ UNCHANGED <<_infos, _wants_to_stop_thread, _selected_resolutions, destroyed,
                   poller_vars, restart_request, did, phase, created_at_copy>>
    /\ UNCHANGED ext_vars

\* open_or_get_webcam without `if (request)`: an entry is used even if expired
open_or_get_webcam_no_expiry_check(id) ==
    /\ Running
    /\ ~_wants_to_stop_thread
    /\ captures_mutex_free
    /\ LET found == _current_requests[id]
           new == created + 1
       IN  IF found # NoSession
           THEN /\ shared_webcams[found] < MaxHandles
                /\ shared_webcams' = [shared_webcams EXCEPT ![found] = @ + 1]
                /\ UNCHANGED <<_current_requests, created, req_id, maybe_capture, ever_plugged>>
           ELSE /\ created < MaxSessions
                /\ created' = new
                /\ req_id' = [req_id EXCEPT ![new] = id]
                /\ maybe_capture' = [maybe_capture EXCEPT ![new] = CaptureNotInitYet]
                /\ shared_webcams' = [shared_webcams EXCEPT ![new] = 1]
                /\ _current_requests' = [_current_requests EXCEPT ![id] = new]
                /\ ever_plugged' = [ever_plugged EXCEPT ![new] = is_plugged_in(id)]
    /\ UNCHANGED <<_infos, _wants_to_stop_thread, _selected_resolutions, destroyed,
                   poller_vars, restart_request, did, phase, created_at_copy>>
    /\ UNCHANGED ext_vars

\* Manager::open_or_get_webcam
open_or_get_webcam(id) ==
    /\ Running
    /\ ~_wants_to_stop_thread
    /\ captures_mutex_free
    /\ LET found == lock(_current_requests[id])
           new == created + 1
       IN  IF found # NoSession
           THEN /\ shared_webcams[found] < MaxHandles
                /\ shared_webcams' = [shared_webcams EXCEPT ![found] = @ + 1]
                /\ UNCHANGED <<_current_requests, created, req_id, maybe_capture, ever_plugged>>
           ELSE /\ created < MaxSessions
                /\ created' = new
                /\ req_id' = [req_id EXCEPT ![new] = id]
                /\ maybe_capture' = [maybe_capture EXCEPT ![new] = CaptureNotInitYet]
                /\ shared_webcams' = [shared_webcams EXCEPT ![new] = 1]
                /\ _current_requests' = [_current_requests EXCEPT ![id] = new]
                /\ ever_plugged' = [ever_plugged EXCEPT ![new] = is_plugged_in(id)]
    /\ UNCHANGED <<_infos, _wants_to_stop_thread, _selected_resolutions, destroyed,
                   poller_vars, restart_request, did, phase, created_at_copy>>
    /\ UNCHANGED ext_vars

\* ~SharedWebcam: a caller drops one handle of object s
drop_shared_webcam(s) ==
    /\ Running
    /\ s \in 1..created
    /\ shared_webcams[s] > 0
    /\ shared_webcams' = [shared_webcams EXCEPT ![s] = @ - 1]
    /\ IF use_count(s) = 1
       THEN destroy(s)
       ELSE UNCHANGED <<req_id, maybe_capture, destroyed, did, ever_plugged, phase>>
    /\ UNCHANGED <<manager_vars, _selected_resolutions, created, poller_vars,
                   restart_request, created_at_copy>>
    /\ UNCHANGED ext_vars

\* the restart function without `if (!request) return;`: the entry is used
\* even if it has expired
restart_the_capture_without_expiry_check(id) ==
    /\ captures_mutex_free
    /\ LET found == _current_requests[id]
       IN  IF found = NoSession
           THEN UNCHANGED <<maybe_capture, restart_request, phase, did>>
           ELSE /\ restart_request' = found
                /\ maybe_capture' = [maybe_capture EXCEPT ![found] = CaptureNotInitYet]
                /\ phase' = phase_of(found, phase_after(phase, CaptureNotInitYet))
                /\ did' = [did EXCEPT ![found].restarted = (did[found].poller # "nothing")]
    /\ UNCHANGED <<manager_vars, created, req_id, shared_webcams,
                   destroyed, poller_vars, ever_plugged, created_at_copy>>

\* the body of Manager::request_a_restart_of_the_capture_if_it_exists, up to
\* the write: the lock, the lookup, and `maybe_capture() = CaptureNotInitYet{}`
restart_the_capture_if_it_exists(id) ==
    /\ captures_mutex_free
    /\ LET found == lock(_current_requests[id])
       IN  IF found = NoSession
           THEN UNCHANGED <<maybe_capture, restart_request, phase, did>>
           ELSE /\ restart_request' = found
                /\ maybe_capture' = [maybe_capture EXCEPT ![found] = CaptureNotInitYet]
                /\ phase' = phase_of(found, phase_after(phase, CaptureNotInitYet))
                /\ did' = [did EXCEPT ![found].restarted = (did[found].poller # "nothing")]
    /\ UNCHANGED <<manager_vars, created, req_id, shared_webcams,
                   destroyed, poller_vars, ever_plugged, created_at_copy>>

\* Manager::request_a_restart_of_the_capture_if_it_exists, called by a caller
request_a_restart_of_the_capture_if_it_exists(id) ==
    /\ Running
    /\ ~_wants_to_stop_thread
    /\ restart_the_capture_if_it_exists(id)
    /\ UNCHANGED _selected_resolutions
    /\ UNCHANGED ext_vars

\* the end of the restart function: its `request` and its lock are released
release_the_restart_request ==
    /\ restart_request # NoSession
    /\ restart_request' = NoSession
    /\ IF use_count(restart_request) = 1
       THEN destroy(restart_request)
       ELSE UNCHANGED <<req_id, maybe_capture, destroyed, did, ever_plugged, phase>>
    /\ UNCHANGED <<manager_vars, created, shared_webcams, poller_vars, created_at_copy>>

\* the return of the restart function
request_a_restart_return ==
    /\ Running
    /\ release_the_restart_request
    /\ UNCHANGED _selected_resolutions
    /\ UNCHANGED ext_vars

\* ~Manager that also empties _selected_resolutions, as if the
\* ResolutionsManager were a member of the Manager
Manager_destructor_clears_resolutions ==
    /\ Running
    /\ ~_wants_to_stop_thread
    /\ captures_mutex_free
    /\ _wants_to_stop_thread' = TRUE
    /\ _selected_resolutions' = [d \in DeviceIds |-> NoResolution]
    /\ UNCHANGED <<_infos, _current_requests, object_vars,
                   poller_vars, restart_request, history_vars>>
    /\ UNCHANGED ext_vars

\* Manager::~Manager: asks the poll thread to stop, then joins it
Manager_destructor ==
    /\ Running
    /\ ~_wants_to_stop_thread
    /\ captures_mutex_free
    /\ _wants_to_stop_thread' = TRUE
    /\ UNCHANGED <<_infos, _current_requests, _selected_resolutions, object_vars,
                   poller_vars, restart_request, history_vars>>
    /\ UNCHANGED ext_vars

(***************************************************************************)
(* The poll thread.                                                        *)
(***************************************************************************)
\* Manager::thread_job: the test of the while loop
thread_job ==
    /\ pc = "check"
    /\ pc' = IF _wants_to_stop_thread THEN "exited" ELSE "grab"
    /\ did' = [s \in Sessions |-> Nothing]
    /\ UNCHANGED <<manager_vars, _selected_resolutions, object_vars, infos,
                   current_requests, pending, request, capture, uncaught,
                   restart_request, ever_plugged, phase, created_at_copy>>
    /\ UNCHANGED ext_vars

\* Manager::update: `auto infos = grab_all_infos();` returns a list
update_grab_all_infos ==
    /\ pc = "grab"
    /\ \E attached \in SUBSET DeviceIds :
       \E reported \in [DeviceIds -> ReportedResolutions] :
            infos' = grab_all_infos(attached, reported)
    /\ pc' = "store"
    /\ UNCHANGED <<manager_vars, _selected_resolutions, object_vars,
                   current_requests, pending, request, capture, uncaught,
                   restart_request, history_vars>>
    /\ UNCHANGED ext_vars

\* grab_all_infos_impl throws: a THROW_IF_ERR on the enumerator, or on one
\* device (find_webcam_name, BindToObject, get_video_parameters,
\* find_webcam_id), throws std::runtime_error; nothing between there and
\* thread_job catches it
update_grab_all_infos_throws ==
    /\ pc = "grab"
    /\ pc' = "terminated"
    /\ uncaught' = "std::runtime_error from grab_all_infos_impl"
    /\ UNCHANGED <<manager_vars, _selected_resolutions, object_vars, infos,
                   current_requests, pending, request, capture,
                   restart_request, history_vars>>
    /\ UNCHANGED ext_vars

\* Manager::update: `_infos = std::move(infos);` under _infos_mutex
update_store_infos ==
    /\ pc = "store"
    /\ _infos' = infos
    /\ infos' = <<>>
    /\ pc' = "copy"
    /\ ever_plugged' = [s \in Sessions |->
                           ever_plugged[s] \/ (Alive(s) /\ req_id[s] \in InfoIds(infos))]
    /\ UNCHANGED <<_current_requests, _wants_to_stop_thread, _selected_resolutions,
                   object_vars, current_requests, pending, request, capture, uncaught,
                   restart_request, did, phase, created_at_copy>>
    /\ UNCHANGED ext_vars

\* the copy of _current_requests preceded by an erase of the entries that
\* have expired
update_copy_current_requests_prunes ==
    /\ pc = "copy"
    /\ captures_mutex_free
    /\ _current_requests' = [id \in DeviceIds |-> lock(_current_requests[id])]
    /\ current_requests' = _current_requests'
    /\ pending' = {id \in DeviceIds : _current_requests'[id] # NoSession}
    /\ created_at_copy' = created
    /\ pc' = "loop"
    /\ UNCHANGED <<_infos, _wants_to_stop_thread, _selected_resolutions, object_vars,
                   infos, request, capture, uncaught, restart_request,
                   did, ever_plugged, phase>>
    /\ UNCHANGED ext_vars

\* Manager::update: the copy of _current_requests under _captures_mutex
update_copy_current_requests ==
    /\ pc = "copy"
    /\ captures_mutex_free
    /\ current_requests' = _current_requests
    /\ pending' = {id \in DeviceIds : _current_requests[id] # NoSession}
    /\ created_at_copy' = created
    /\ pc' = "loop"
    /\ UNCHANGED <<manager_vars, _selected_resolutions, object_vars, infos,
                   request, capture, uncaught, restart_request,
                   did, ever_plugged, phase>>
    /\ UNCHANGED ext_vars

\* update_visit with the two tests swapped: a Capture is kept before the
\* device is looked up in _infos
update_visit_checks_capture_first(id) ==
    /\ pc = "loop"
    /\ id \in pending
    /\ pending' = pending \ {id}
    /\ LET locked == lock(current_requests[id])
       IN  IF locked = NoSession
           THEN UNCHANGED <<pc, request, maybe_capture, did, phase>>
           ELSE /\ request' = locked
                /\ IF maybe_capture[locked].tag = "Capture"
                   THEN /\ did' = [did EXCEPT ![locked] = PollerDid("kept")]
                        /\ pc' = "release"
                        /\ UNCHANGED <<maybe_capture, phase>>
                   ELSE IF ~is_plugged_in(req_id[locked])
                   THEN /\ maybe_capture' = [maybe_capture EXCEPT ![locked] = Error_WebcamUnplugged]
                        /\ phase' = phase_of(locked, phase_after(phase, Error_WebcamUnplugged))
                        /\ did' = [did EXCEPT ![locked] = PollerDid("unplugged")]
                        /\ pc' = "release"
                   ELSE /\ pc' = "open"
                        /\ UNCHANGED <<maybe_capture, did, phase>>
    /\ UNCHANGED <<manager_vars, _selected_resolutions, created, req_id, shared_webcams,
                   destroyed, infos, current_requests, capture, uncaught,
                   restart_request, ever_plugged, created_at_copy>>
    /\ UNCHANGED ext_vars

\* update_visit without the is_plugged_in test
update_visit_without_plugged_test(id) ==
    /\ pc = "loop"
    /\ id \in pending
    /\ pending' = pending \ {id}
    /\ LET locked == lock(current_requests[id])
       IN  IF locked = NoSession
           THEN UNCHANGED <<pc, request, maybe_capture, did, phase>>
           ELSE /\ request' = locked
                /\ IF maybe_capture[locked].tag = "Capture"
                   THEN /\ did' = [did EXCEPT ![locked] = PollerDid("kept")]
                        /\ pc' = "release"
                        /\ UNCHANGED <<maybe_capture, phase>>
                   ELSE /\ pc' = "open"
                        /\ UNCHANGED <<maybe_capture, did, phase>>
    /\ UNCHANGED <<manager_vars, _selected_resolutions, created, req_id, shared_webcams,
                   destroyed, infos, current_requests, capture, uncaught,
                   restart_request, ever_plugged, created_at_copy>>
    /\ UNCHANGED ext_vars

\* update_visit that only opens what was never opened: an object that holds
\* an error is left as it is
update_visit_without_retry(id) ==
    /\ pc = "loop"
    /\ id \in pending
    /\ pending' = pending \ {id}
    /\ LET locked == lock(current_requests[id])
       IN  IF locked = NoSession
           THEN UNCHANGED <<pc, request, maybe_capture, did, phase>>
           ELSE /\ request' = locked
                /\ IF ~is_plugged_in(req_id[locked])
                   THEN /\ maybe_capture' = [maybe_capture EXCEPT ![locked] = Error_WebcamUnplugged]
                        /\ phase' = phase_of(locked, phase_after(phase, Error_WebcamUnplugged))
                        /\ did' = [did EXCEPT ![locked] = PollerDid("unplugged")]
                        /\ pc' = "release"
                   ELSE IF maybe_capture[locked] # CaptureNotInitYet
                   THEN /\ did' = [did EXCEPT ![locked] = PollerDid("kept")]
                        /\ pc' = "release"
                        /\ UNCHANGED <<maybe_capture, phase>>
                   ELSE /\ pc' = "open"
                        /\ UNCHANGED <<maybe_capture, did, phase>>
    /\ UNCHANGED <<manager_vars, _selected_resolutions, created, req_id, shared_webcams,
                   destroyed, infos, current_requests, capture, uncaught,
                   restart_request, ever_plugged, created_at_copy>>
    /\ UNCHANGED ext_vars

\* update_visit without the holds_alternative<Capture> test: whatever the
\* object holds, a plugged-in device is opened
update_visit_without_capture_test(id) ==
    /\ pc = "loop"
    /\ id \in pending
    /\ pending' = pending \ {id}
    /\ LET locked == lock(current_requests[id])
       IN  IF locked = NoSession
           THEN UNCHANGED <<pc, request, maybe_capture, did, phase>>
           ELSE /\ request' = locked
                /\ IF ~is_plugged_in(req_id[locked])
                   THEN /\ maybe_capture' = [maybe_capture EXCEPT ![locked] = Error_WebcamUnplugged]
                        /\ phase' = phase_of(locked, phase_after(phase, Error_WebcamUnplugged))
                        /\ did' = [did EXCEPT ![locked] = PollerDid("unplugged")]
                        /\ pc' = "release"
                   ELSE /\ pc' = "open"
                        /\ UNCHANGED <<maybe_capture, did, phase>>
    /\ UNCHANGED <<manager_vars, _selected_resolutions, created, req_id, shared_webcams,
                   destroyed, infos, current_requests, capture, uncaught,
                   restart_request, ever_plugged, created_at_copy>>
    /\ UNCHANGED ext_vars

\* update_visit that looks each id up in _current_requests itself instead
\* of the copy
update_visit_iterates_the_map(id) ==
    /\ pc = "loop"
    /\ id \in pending
    /\ pending' = pending \ {id}
    /\ LET locked == lock(_current_requests[id])
       IN  IF locked = NoSession
           THEN UNCHANGED <<pc, request, maybe_capture, did, phase>>
           ELSE /\ request' = locked
                /\ IF ~is_plugged_in(req_id[locked])
                   THEN /\ maybe_capture' = [maybe_capture EXCEPT ![locked] = Error_WebcamUnplugged]
                        /\ phase' = phase_of(locked, phase_after(phase, Error_WebcamUnplugged))
                        /\ did' = [did EXCEPT ![locked] = PollerDid("unplugged")]
                        /\ pc' = "release"
                   ELSE IF maybe_capture[locked].tag = "Capture"
                   THEN /\ did' = [did EXCEPT ![locked] = PollerDid("kept")]
                        /\ pc' = "release"
                        /\ UNCHANGED <<maybe_capture, phase>>
                   ELSE /\ pc' = "open"
                        /\ UNCHANGED <<maybe_capture, did, phase>>
    /\ UNCHANGED <<manager_vars, _selected_resolutions, created, req_id, shared_webcams,
                   destroyed, infos, current_requests, capture, uncaught,
                   restart_request, ever_plugged, created_at_copy>>
    /\ UNCHANGED ext_vars

\* one iteration of the for loop, from request_weak_ptr.lock() to the try block
update_visit(id) ==
    /\ pc = "loop"
    /\ id \in pending
    /\ pending' = pending \ {id}
    /\ LET locked == lock(current_requests[id])
       IN  IF locked = NoSession
           THEN \* nothing to do
                UNCHANGED <<pc, request, maybe_capture, did, phase>>
           ELSE /\ request' = locked
                /\ IF ~is_plugged_in(req_id[locked])
                   THEN /\ maybe_capture' = [maybe_capture EXCEPT ![locked] = Error_WebcamUnplugged]
                        /\ phase' = phase_of(locked, phase_after(phase, Error_WebcamUnplugged))
                        /\ did' = [did EXCEPT ![locked] = PollerDid("unplugged")]
                        /\ pc' = "release"
                   ELSE IF maybe_capture[locked].tag = "Capture"
                   THEN /\ did' = [did EXCEPT ![locked] = PollerDid("kept")]
                        /\ pc' = "release"
                        /\ UNCHANGED <<maybe_capture, phase>>
                   ELSE /\ pc' = "open"
                        /\ UNCHANGED <<maybe_capture, did, phase>>
    /\ UNCHANGED <<manager_vars, _selected_resolutions, created, req_id, shared_webcams,
                   destroyed, infos, current_requests, capture, uncaught,
                   restart_request, ever_plugged, created_at_copy>>
    /\ UNCHANGED ext_vars

\* the try block: Capture{id, selected_resolution(id)} is constructed
update_open_succeeds ==
    /\ pc = "open"
    /\ capture' = [tag |-> "Capture",
                   value |-> Capture(selected_resolution(req_id[request]))]
    /\ pc' = "assign"
    /\ UNCHANGED <<manager_vars, _selected_resolutions, object_vars, infos,
                   current_requests, pending, request, uncaught,
                   restart_request, history_vars>>
    /\ UNCHANGED ext_vars

\* the try block: the constructor throws a CaptureException, which is caught
update_open_throws_CaptureException(capture_error) ==
    /\ pc = "open"
    /\ capture' = [tag |-> "CaptureException", value |-> capture_error]
    /\ pc' = "assign"
    /\ UNCHANGED <<manager_vars, _selected_resolutions, object_vars, infos,
                   current_requests, pending, request, uncaught,
                   restart_request, history_vars>>
    /\ UNCHANGED ext_vars

\* the try block: CaptureImpl::CaptureImpl ends with
\* `throw CaptureError{Error_WebcamAlreadyUsedInAnotherApplication{}}`, which
\* is no CaptureException: the catch clause lets it through
update_open_throws_CaptureError ==
    /\ pc = "open"
    /\ capture' = [tag |-> "CaptureError",
                   value |-> Error_WebcamAlreadyUsedInAnotherApplication]
    /\ pc' = "terminated"
    /\ uncaught' = "CaptureError from CaptureImpl"
    /\ UNCHANGED <<manager_vars, _selected_resolutions, object_vars, infos,
                   current_requests, pending, request,
                   restart_request, history_vars>>
    /\ UNCHANGED ext_vars

\* the try block: a THROW_IF_ERR of CaptureImpl::CaptureImpl throws
\* std::runtime_error, which the catch clause lets through
update_open_throws_runtime_error ==
    /\ pc = "open"
    /\ capture' = [tag |-> "std::runtime_error", value |-> NoObject]
    /\ pc' = "terminated"
    /\ uncaught' = "std::runtime_error from CaptureImpl"
    /\ UNCHANGED <<manager_vars, _selected_resolutions, object_vars, infos,
                   current_requests, pending, request,
                   restart_request, history_vars>>
    /\ UNCHANGED ext_vars

\* `request->maybe_capture() = ...` of the try block or of the catch clause
update_assign ==
    /\ pc = "assign"
    /\ maybe_capture' = [maybe_capture EXCEPT ![request] = capture.value]
    /\ phase' = phase_of(request, phase_after(phase, capture.value))
    /\ did' = [did EXCEPT ![request] =
                  PollerDid(IF capture.tag = "Capture" THEN "opened" ELSE "open failed")]
    /\ capture' = NoCapture
    /\ pc' = "release"
    /\ UNCHANGED <<manager_vars, _selected_resolutions, created, req_id, shared_webcams,
                   destroyed, infos, current_requests, pending, request, uncaught,
                   restart_request, ever_plugged, created_at_copy>>
    /\ UNCHANGED ext_vars

\* update_release that destroys the object whoever else owns it
update_release_always_destroys ==
    /\ pc = "release"
    /\ request' = NoSession
    /\ pc' = "loop"
    /\ destroy(request)
    /\ UNCHANGED <<manager_vars, _selected_resolutions, created, shared_webcams,
                   infos, current_requests, pending, capture, uncaught,
                   restart_request, created_at_copy>>
    /\ UNCHANGED ext_vars

\* update_release that never destroys the object
update_release_never_destroys ==
    /\ pc = "release"
    /\ request' = NoSession
    /\ pc' = "loop"
    /\ UNCHANGED <<req_id, maybe_capture, destroyed, did, ever_plugged, phase>>
    /\ UNCHANGED <<manager_vars, _selected_resolutions, created, shared_webcams,
                   infos, current_requests, pending, capture, uncaught,
                   restart_request, created_at_copy>>
    /\ UNCHANGED ext_vars

\* the end of the loop body (or `continue`): `request` goes out of scope
update_release ==
    /\ pc = "release"
    /\ request' = NoSession
    /\ pc' = "loop"
    /\ IF use_count(request) = 1
       THEN destroy(request)
       ELSE UNCHANGED <<req_id, maybe_capture, destroyed, did, ever_plugged, phase>>
    /\ UNCHANGED <<manager_vars, _selected_resolutions, created, shared_webcams,
                   infos, current_requests, pending, capture, uncaught,
                   restart_request, created_at_copy>>
    /\ UNCHANGED ext_vars

\* the for loop is over: update returns to thread_job
update_return ==
    /\ pc = "loop"
    /\ pending = {}
    /\ current_requests' = [d \in DeviceIds |-> NoSession]
    /\ pc' = "check"
    /\ UNCHANGED <<manager_vars, _selected_resolutions, object_vars, infos,
                   pending, request, capture, uncaught,
                   restart_request, history_vars>>
    /\ UNCHANGED ext_vars

Next ==
    \/ \E id \in DeviceIds : open_or_get_webcam(id)
    \/ \E s \in Sessions : drop_shared_webcam(s)
    \/ \E id \in DeviceIds : request_a_restart_of_the_capture_if_it_exists(id)
    \/ request_a_restart_return
    \/ Manager_destructor
    \/ thread_job
    \/ update_grab_all_infos
    \/ update_grab_all_infos_throws
    \/ update_store_infos
    \/ update_copy_current_requests
    \/ \E id \in DeviceIds : update_visit(id)
    \/ update_open_succeeds
    \/ \E capture_error \in CaptureErrors : update_open_throws_CaptureException(capture_error)
    \/ update_open_throws_CaptureError
    \/ update_open_throws_runtime_error
    \/ update_assign
    \/ update_release
    \/ update_return

Spec == Init /\ [][Next]_vars

(***************************************************************************)
(* ResolutionsManager, with the Manager running.                           *)
(***************************************************************************)
\* no list of resolutions, for the records of calls that take none
NothingReported == [d \in DeviceIds |-> <<>>]

\* the record of a call of set_selected_resolution: its arguments and the
\* entry of _selected_resolutions that it found
SetCall(id, resolution, stored) ==
    [op |-> "set_selected_resolution", id |-> id, resolution |-> resolution,
     stored |-> stored, found |-> FALSE, reported |-> NothingReported, infos |-> <<>>]

\* set_selected_resolution that stores the value without comparing it
set_selected_resolution_always_stores(id, resolution) ==
    /\ Running
    /\ set_pending = "none"
    /\ returned' = <<SetCall(id, resolution, _selected_resolutions[id])>>
    /\ _selected_resolutions' = [_selected_resolutions EXCEPT ![id] = resolution]
    /\ set_pending' = id
    /\ UNCHANGED <<manager_vars, object_vars, poller_vars, restart_request,
                   history_vars, at, owner, image_vars>>

\* ResolutionsManager::set_selected_resolution, up to the store
set_selected_resolution(id, resolution) ==
    /\ Running
    /\ set_pending = "none"
    /\ returned' = <<SetCall(id, resolution, _selected_resolutions[id])>>
    /\ IF _selected_resolutions[id] = resolution
       THEN \* already set: nothing to do
            UNCHANGED <<_selected_resolutions, set_pending>>
       ELSE /\ _selected_resolutions' = [_selected_resolutions EXCEPT ![id] = resolution]
            /\ set_pending' = id
    /\ UNCHANGED <<manager_vars, object_vars, poller_vars, restart_request,
                   history_vars, at, owner, image_vars>>

\* ResolutionsManager::set_selected_resolution, after the store:
\* `if (manager) manager->request_a_restart_of_the_capture_if_it_exists(id)`;
\* there is no Manager any more once its destruction has begun
set_selected_resolution_restart ==
    /\ Running
    /\ set_pending # "none"
    /\ set_pending' = "none"
    /\ IF ~_wants_to_stop_thread
       THEN restart_the_capture_if_it_exists(set_pending)
       ELSE UNCHANGED <<manager_vars, object_vars, poller_vars, restart_request,
                        history_vars>>
    /\ UNCHANGED <<_selected_resolutions, at, owner, image_vars, returned>>

\* the devices the callers of this specification ask for
CallerIds == {"Cam-A"}
\* the devices they choose a resolution for
PreferenceIds == DeviceIds

ResolutionsNext ==
    \/ \E id \in CallerIds : open_or_get_webcam(id)
    \/ \E s \in Sessions : drop_shared_webcam(s)
    \/ \E id \in CallerIds : request_a_restart_of_the_capture_if_it_exists(id)
    \/ request_a_restart_return
    \/ \E id \in PreferenceIds : \E resolution \in Resolutions :
          set_selected_resolution(id, resolution)
    \/ set_selected_resolution_restart
    \/ Manager_destructor
    \/ thread_job
    \/ update_grab_all_infos
    \/ update_store_infos
    \/ update_copy_current_requests
    \/ \E id \in DeviceIds : update_visit(id)
    \/ update_open_succeeds
    \/ \E capture_error \in CaptureErrors : update_open_throws_CaptureException(capture_error)
    \/ update_assign
    \/ update_release
    \/ update_return

ResolutionsSpec == Init /\ [][ResolutionsNext]_vars

(***************************************************************************)
(* The restart function, every call of it recorded.                        *)
(***************************************************************************)
\* the record of a call of request_a_restart_of_the_capture_if_it_exists
RestartCall(id) ==
    [op |-> "request_a_restart_of_the_capture_if_it_exists", id |-> id,
     resolution |-> NoResolution, stored |-> NoResolution, found |-> FALSE,
     reported |-> NothingReported, infos |-> <<>>]

\* a caller calls Manager::request_a_restart_of_the_capture_if_it_exists
request_a_restart_call(id) ==
    /\ Running
    /\ ~_wants_to_stop_thread
    /\ returned = <<>>
    /\ restart_the_capture_if_it_exists(id)
    /\ returned' = <<RestartCall(id)>>
    /\ UNCHANGED <<_selected_resolutions, set_pending, at, owner, image_vars>>

\* the call returns, from `return;` or from the end of the function
request_a_restart_call_returns ==
    /\ Running
    /\ returned # <<>>
    /\ returned' = <<>>
    /\ IF restart_request # NoSession
       THEN release_the_restart_request
       ELSE UNCHANGED <<manager_vars, object_vars, poller_vars, restart_request,
                        history_vars>>
    /\ UNCHANGED <<_selected_resolutions, set_pending, at, owner, image_vars>>

RestartNext ==
    \/ \E id \in CallerIds : open_or_get_webcam(id)
    \/ \E s \in Sessions : drop_shared_webcam(s)
    \/ \E id \in DeviceIds : request_a_restart_call(id)
    \/ request_a_restart_call_returns
    \/ Manager_destructor
    \/ thread_job
    \/ update_grab_all_infos
    \/ update_store_infos
    \/ update_copy_current_requests
    \/ \E id \in DeviceIds : update_visit(id)
    \/ update_open_succeeds
    \/ \E capture_error \in CaptureErrors : update_open_throws_CaptureException(capture_error)
    \/ update_assign
    \/ update_release
    \/ update_return

RestartSpec == Init /\ [][RestartNext]_vars

(***************************************************************************)
(* The destruction of the Manager, with the thread that runs ~Manager.      *)
(***************************************************************************)
\* the thread that destroys the Manager
Destroyer == "caller1"
\* where that thread is while it waits in `_thread.join()`
AtJoin == [op |-> "~Manager", stmt |-> 2, id |-> "none"]

\* `_wants_to_stop_thread.store(true);`
Manager_destructor_store ==
    /\ Running
    /\ ~_wants_to_stop_thread
    /\ captures_mutex_free
    /\ at[Destroyer] = Idle
    /\ _wants_to_stop_thread' = TRUE
    /\ at' = [at EXCEPT ![Destroyer] = AtJoin]
    /\ UNCHANGED <<_infos, _current_requests, _selected_resolutions, object_vars,
                   poller_vars, restart_request, history_vars,
                   set_pending, owner, image_vars, returned>>

\* ~Manager that detaches the thread instead of joining it
Manager_destructor_detach ==
    /\ at[Destroyer] = AtJoin
    /\ at' = [at EXCEPT ![Destroyer] = Idle]
    /\ UNCHANGED <<manager_vars, _selected_resolutions, object_vars,
                   poller_vars, restart_request, history_vars,
                   set_pending, owner, image_vars, returned>>

\* `_thread.join();` returns: thread_job has returned
Manager_destructor_join ==
    /\ at[Destroyer] = AtJoin
    /\ pc = "exited"
    /\ at' = [at EXCEPT ![Destroyer] = Idle]
    /\ UNCHANGED <<manager_vars, _selected_resolutions, object_vars,
                   poller_vars, restart_request, history_vars,
                   set_pending, owner, image_vars, returned>>

\* the steps of the poll thread when every call into the hardware returns
\* and every exception of the open is a CaptureException
poll_thread_steps ==
    \/ thread_job
    \/ update_grab_all_infos
    \/ update_store_infos
    \/ update_copy_current_requests
    \/ \E id \in DeviceIds : update_visit(id)
    \/ update_open_succeeds
    \/ \E capture_error \in CaptureErrors : update_open_throws_CaptureException(capture_error)
    \/ update_assign
    \/ update_release
    \/ update_return

TeardownNext ==
    \/ \E id \in CallerIds : open_or_get_webcam(id)
    \/ \E s \in Sessions : drop_shared_webcam(s)
    \/ \E id \in CallerIds : request_a_restart_of_the_capture_if_it_exists(id)
    \/ request_a_restart_return
    \/ Manager_destructor_store
    \/ Manager_destructor_join
    \/ poll_thread_steps

\* the poll thread is scheduled; a caller inside the restart function, which
\* holds _captures_mutex, gets to its return; join returns once it can
TeardownSpec ==
    /\ Init
    /\ [][TeardownNext]_vars
    /\ WF_vars(poll_thread_steps)
    /\ WF_vars(request_a_restart_return)
    /\ WF_vars(Manager_destructor_join)

\* the same, with a poll thread that also gets _captures_mutex whenever it
\* waits for it, however often callers take it
LiveSpec ==
    /\ TeardownSpec
    /\ SF_vars(update_copy_current_requests)

(***************************************************************************)
(* The functions of the snapshot and of the preferences, called one at a   *)
(* time on the lists an enumeration can produce.                           *)
(***************************************************************************)
\* the longest resolution list a device reports here
MaxReported == 3
\* same pixel count as R_big, smaller width
R_tall == <<3, 4>>
\* the lists get_video_parameters may return: any order, any duplicates
RECURSIVE ListsUpTo(_, _)
ListsUpTo(S, n) ==
    IF n = 0 THEN {<<>>}
    ELSE LET shorter == ListsUpTo(S, n - 1)
         IN  shorter \cup {<<r>> \o l : r \in S, l \in {x \in shorter : Len(x) = n - 1}}
AnyReportedResolutions == ListsUpTo({R_small, R_big, R_tall}, MaxReported)

\* the record of a call of default_resolution or selected_resolution: its
\* argument and the resolution it returned
ResolutionCall(op, id, resolution) ==
    [op |-> op, id |-> id, resolution |-> resolution,
     stored |-> NoResolution, found |-> FALSE, reported |-> NothingReported,
     infos |-> <<>>]

\* the record of a call of grab_all_infos: what the devices reported and the
\* list it returned
GrabCall(reported, infos_) ==
    [op |-> "grab_all_infos", id |-> "none", resolution |-> NoResolution,
     stored |-> NoResolution, found |-> FALSE, reported |-> reported, infos |-> infos_]

\* Manager::update, from grab_all_infos() to the store in _infos, for any
\* list of resolutions of Cam-A
enumerate_and_store(attached, reported) ==
    /\ pc = "check"
    /\ LET infos_ == grab_all_infos(attached, reported)
       IN  /\ _infos' = infos_
           /\ returned' = <<GrabCall(reported, infos_)>>
    /\ UNCHANGED <<_current_requests, _wants_to_stop_thread, _selected_resolutions,
                   object_vars, poller_vars, restart_request, history_vars,
                   set_pending, at, owner, image_vars>>

\* a call of Manager::default_resolution
default_resolution_call(id) ==
    /\ set_pending = "none"
    /\ returned' = <<ResolutionCall("default_resolution", id, default_resolution(id))>>
    /\ UNCHANGED <<manager_vars, _selected_resolutions, object_vars, poller_vars,
                   restart_request, history_vars, set_pending, at, owner, image_vars>>

\* a call of ResolutionsManager::selected_resolution
selected_resolution_call(id) ==
    /\ set_pending = "none"
    /\ returned' = <<ResolutionCall("selected_resolution", id, selected_resolution(id))>>
    /\ UNCHANGED <<manager_vars, _selected_resolutions, object_vars, poller_vars,
                   restart_request, history_vars, set_pending, at, owner, image_vars>>

FunctionsNext ==
    \/ \E attached \in SUBSET DeviceIds :
       \E reported_A \in AnyReportedResolutions :
          enumerate_and_store(attached, [d \in DeviceIds |->
                                            IF d = "Cam-A" THEN reported_A
                                            ELSE <<R_small, R_big, R_big>>])
    \/ \E id \in DeviceIds : default_resolution_call(id)
    \/ \E id \in DeviceIds : selected_resolution_call(id)
    \/ \E id \in CallerIds : \E resolution \in Resolutions :
          set_selected_resolution(id, resolution)
    \/ set_selected_resolution_restart

FunctionsSpec == Init /\ [][FunctionsNext]_vars

(***************************************************************************)
(* The operations one statement at a time: which mutex each takes, what it *)
(* reads and writes while it holds it, and where it waits for the          *)
(* hardware.                                                               *)
(***************************************************************************)
Stmt(do, on) == [do |-> do, on |-> on]

\* Manager::infos
infos_program ==
    << Stmt("lock", "_infos_mutex"), Stmt("read", "_infos"),
       Stmt("unlock", "_infos_mutex") >>

\* is_plugged_in that reads _infos without taking _infos_mutex
is_plugged_in_program_without_lock == << Stmt("read", "_infos") >>

\* Manager::is_plugged_in
is_plugged_in_program ==
    << Stmt("lock", "_infos_mutex"), Stmt("read", "_infos"),
       Stmt("unlock", "_infos_mutex") >>

\* Manager::default_resolution
default_resolution_program ==
    << Stmt("lock", "_infos_mutex"), Stmt("read", "_infos"),
       Stmt("unlock", "_infos_mutex") >>

\* Manager::open_or_get_webcam: no Capture is constructed, the new
\* WebcamRequest holds CaptureNotInitYet
open_or_get_webcam_program ==
    << Stmt("lock", "_captures_mutex"), Stmt("read", "_current_requests"),
       Stmt("write", "_current_requests"), Stmt("unlock", "_captures_mutex") >>

\* the restart function that asks is_plugged_in before it writes
request_a_restart_program_checks_plugged_in ==
    << Stmt("lock", "_captures_mutex"), Stmt("read", "_current_requests") >>
    \o is_plugged_in_program
    \o << Stmt("io", "close"), Stmt("write", "maybe_capture"),
          Stmt("unlock", "_captures_mutex") >>

\* Manager::request_a_restart_of_the_capture_if_it_exists; the assignment of
\* CaptureNotInitYet destroys the Capture that the variant held
request_a_restart_program ==
    << Stmt("lock", "_captures_mutex"), Stmt("read", "_current_requests"),
       Stmt("io", "close"), Stmt("write", "maybe_capture"),
       Stmt("unlock", "_captures_mutex") >>

\* ResolutionsManager::selected_resolution, when no resolution is stored
selected_resolution_program ==
    << Stmt("read", "_selected_resolutions") >> \o default_resolution_program

\* ResolutionsManager::set_selected_resolution, with a new value
set_selected_resolution_program ==
    << Stmt("read", "_selected_resolutions"), Stmt("write", "_selected_resolutions") >>
    \o request_a_restart_program

\* update that enumerates the devices while it holds _infos_mutex
update_begin_program_grabs_under_lock ==
    << Stmt("lock", "_infos_mutex"), Stmt("io", "enumerate"),
       Stmt("write", "_infos"), Stmt("written", "_infos"),
       Stmt("unlock", "_infos_mutex"),
       Stmt("lock", "_captures_mutex"), Stmt("read", "_current_requests"),
       Stmt("unlock", "_captures_mutex") >>
    \o is_plugged_in_program

\* Manager::update up to the test of is_plugged_in for one request; the
\* move-assignment of _infos takes two statements
update_begin_program ==
    << Stmt("io", "enumerate"),
       Stmt("lock", "_infos_mutex"), Stmt("write", "_infos"), Stmt("written", "_infos"),
       Stmt("unlock", "_infos_mutex"),
       Stmt("lock", "_captures_mutex"), Stmt("read", "_current_requests"),
       Stmt("unlock", "_captures_mutex") >>
    \o is_plugged_in_program

\* Manager::update, the three ways through the loop body
update_unplugged_program ==
    update_begin_program \o << Stmt("io", "close"), Stmt("write", "maybe_capture") >>
update_kept_program ==
    update_begin_program \o << Stmt("read", "maybe_capture") >>
update_open_program ==
    update_begin_program \o << Stmt("read", "maybe_capture") >>
    \o selected_resolution_program
    \o << Stmt("io", "open"), Stmt("write", "maybe_capture") >>

\* CaptureImpl::image
image_program ==
    << Stmt("lock", "_mutex"), Stmt("move", "_image"), Stmt("consume", "_image"),
       Stmt("unlock", "_mutex"), Stmt("return", "res") >>

\* what the poll thread runs, and what a caller thread may call
PollOps == {"update (unplugged)", "update (kept)", "update (open)"}
CallerOps == {"infos", "is_plugged_in", "default_resolution", "open_or_get_webcam",
              "request_a_restart_of_the_capture_if_it_exists",
              "selected_resolution", "set_selected_resolution"}

ProgramOf(op) ==
    CASE op = "infos" -> infos_program
      [] op = "is_plugged_in" -> is_plugged_in_program
      [] op = "default_resolution" -> default_resolution_program
      [] op = "open_or_get_webcam" -> open_or_get_webcam_program
      [] op = "request_a_restart_of_the_capture_if_it_exists" -> request_a_restart_program
      [] op = "selected_resolution" -> selected_resolution_program
      [] op = "set_selected_resolution" -> set_selected_resolution_program
      [] op = "update (unplugged)" -> update_unplugged_program
      [] op = "update (kept)" -> update_kept_program
      [] op = "update (open)" -> update_open_program
      [] op = "image" -> image_program

\* the statement thread t is about to execute
StatementOf(t) ==
    IF at[t].op = "idle" THEN Stmt("idle", "none") ELSE ProgramOf(at[t].op)[at[t].stmt]

\* where thread t is after that statement
after(t) ==
    IF at[t].stmt = Len(ProgramOf(at[t].op))
    THEN [at EXCEPT ![t] = Idle]
    ELSE [at EXCEPT ![t].stmt = @ + 1]

\* the mutexes thread t holds
held(t) == {m \in Mutexes : owner[m] = t}

\* a move-assignment of the object is under way
HalfWritten(object) == \E t \in Threads : StatementOf(t) = Stmt("written", object)

\* what a read of _infos finds while _infos is being assigned
TornInfos == << [id |-> "torn", resolutions |-> <<>>] >>

\* the record of a call that read _infos: the list it saw and what it made
\* of it
ReadCall(op, id, seen) ==
    [op |-> op, id |-> id,
     resolution |-> IF op = "default_resolution" /\ seen = _infos
                    THEN default_resolution(id) ELSE NoResolution,
     stored |-> NoResolution,
     found |-> (op = "is_plugged_in" /\ \E i \in 1..Len(seen) : seen[i].id = id),
     reported |-> NothingReported, infos |-> seen]

\* the state these statements leave alone
statement_frame ==
    <<_current_requests, _wants_to_stop_thread, _selected_resolutions, object_vars,
      pc, current_requests, pending, request, capture, uncaught, restart_request,
      history_vars, set_pending, image_vars>>

\* thread t enters an operation
enter(t, op, id) ==
    /\ at[t] = Idle
    /\ op \in (IF t = "poll" THEN PollOps ELSE CallerOps)
    /\ at' = [at EXCEPT ![t] = [op |-> op, stmt |-> 1, id |-> id]]
    /\ UNCHANGED <<_infos, infos, owner, returned, statement_frame>>

\* std::scoped_lock lock{mutex}: waits until the mutex is free
lock_mutex(t) ==
    /\ StatementOf(t).do = "lock"
    /\ owner[StatementOf(t).on] = "free"
    /\ owner' = [owner EXCEPT ![StatementOf(t).on] = t]
    /\ at' = after(t)
    /\ UNCHANGED <<_infos, infos, returned, statement_frame>>

\* the end of the scope of the lock
unlock_mutex(t) ==
    /\ StatementOf(t).do = "unlock"
    /\ owner' = [owner EXCEPT ![StatementOf(t).on] = "free"]
    /\ at' = after(t)
    /\ UNCHANGED <<_infos, infos, returned, statement_frame>>

\* a call into the hardware returns: grab_all_infos, the constructor of
\* Capture, or the destructor of Capture
hardware_returns(t) ==
    /\ StatementOf(t).do = "io"
    /\ IF StatementOf(t).on = "enumerate"
       THEN \E attached \in SUBSET DeviceIds :
            \E reported \in [DeviceIds -> ReportedResolutions] :
                infos' = grab_all_infos(attached, reported)
       ELSE UNCHANGED infos
    /\ at' = after(t)
    /\ UNCHANGED <<_infos, owner, returned, statement_frame>>

\* a read of shared state; a caller's read of _infos is recorded
read_shared(t) ==
    /\ StatementOf(t).do = "read"
    /\ IF StatementOf(t).on = "_infos" /\ t # "poll"
       THEN returned' = <<ReadCall(at[t].op, at[t].id,
                                   IF HalfWritten("_infos") THEN TornInfos ELSE _infos)>>
       ELSE UNCHANGED returned
    /\ at' = after(t)
    /\ UNCHANGED <<_infos, infos, owner, statement_frame>>

\* a write of shared state; `_infos = std::move(infos)` is complete at its
\* second statement
write_shared(t) ==
    /\ StatementOf(t).do \in {"write", "written"}
    /\ IF StatementOf(t) = Stmt("written", "_infos")
       THEN _infos' = infos /\ infos' = <<>>
       ELSE UNCHANGED <<_infos, infos>>
    /\ at' = after(t)
    /\ UNCHANGED <<owner, returned, statement_frame>>

\* the poll thread and one caller thread
StatementThreads == {"poll", "caller1"}

StatementsNext ==
    \/ \E t \in StatementThreads : \E op \in PollOps \cup CallerOps :
       \E id \in (IF t = "poll" THEN CallerIds ELSE DeviceIds) : enter(t, op, id)
    \/ \E t \in StatementThreads : lock_mutex(t)
    \/ \E t \in StatementThreads : unlock_mutex(t)
    \/ \E t \in StatementThreads : hardware_returns(t)
    \/ \E t \in StatementThreads : read_shared(t)
    \/ \E t \in StatementThreads : write_shared(t)

StatementsSpec == Init /\ [][StatementsNext]_vars

(***************************************************************************)
(* CaptureImpl::image and the delivery of frames.                          *)
(***************************************************************************)
\* how many frames the device produces
MaxFrames == 2
\* how many calls of image() return
MaxImageCalls == 3

\* an img::Image that was moved from
MovedFromImage == Image(0)

\* the state the steps of image() and of the device leave alone
image_frame ==
    <<manager_vars, _selected_resolutions, object_vars, poller_vars, restart_request,
      history_vars, set_pending>>

\* the capture device hands over a frame: it becomes _image, under _mutex
device_delivers_a_frame ==
    /\ frames < MaxFrames
    /\ owner["_mutex"] = "free"
    /\ frames' = frames + 1
    /\ _image' = Image(frames + 1)
    /\ UNCHANGED <<at, owner, res, returned, image_frame>>

\* the capture fails: _image becomes a CaptureError, under _mutex
device_fails(capture_error) ==
    /\ owner["_mutex"] = "free"
    /\ _image # ImageError(capture_error)
    /\ _image' = ImageError(capture_error)
    /\ UNCHANGED <<at, owner, frames, res, returned, image_frame>>

\* a caller enters CaptureImpl::image
image_enter(t) ==
    /\ at[t] = Idle
    /\ Len(returned) < MaxImageCalls
    /\ at' = [at EXCEPT ![t] = [op |-> "image", stmt |-> 1, id |-> "none"]]
    /\ UNCHANGED <<owner, image_vars, returned, image_frame>>

\* `std::lock_guard lock{_mutex};`
image_lock(t) ==
    /\ at[t].op = "image"
    /\ lock_mutex(t)

\* `auto res = std::move(_image);`: the variant keeps its alternative, and
\* an Image that was moved from is left in it
image_move(t) ==
    /\ StatementOf(t) = Stmt("move", "_image")
    /\ res' = [res EXCEPT ![t] = _image]
    /\ _image' = IF _image.tag = "Image" THEN MovedFromImage ELSE _image
    /\ at' = after(t)
    /\ UNCHANGED <<owner, frames, returned, image_frame>>

\* image() without `_image = NoNewImageAvailableYet{}`
image_consume_keeps_the_image(t) ==
    /\ StatementOf(t) = Stmt("consume", "_image")
    /\ at' = after(t)
    /\ UNCHANGED <<owner, image_vars, returned, image_frame>>

\* `if (std::holds_alternative<img::Image>(res)) _image = NoNewImageAvailableYet{};`
image_consume(t) ==
    /\ StatementOf(t) = Stmt("consume", "_image")
    /\ _image' = IF res[t].tag = "Image" THEN NoNewImageAvailableYet ELSE _image
    /\ at' = after(t)
    /\ UNCHANGED <<owner, frames, res, returned, image_frame>>

\* the end of the scope of the lock_guard
image_unlock(t) ==
    /\ at[t].op = "image"
    /\ unlock_mutex(t)

\* `return res;`
image_return(t) ==
    /\ StatementOf(t) = Stmt("return", "res")
    /\ returned' = Append(returned, res[t])
    /\ res' = [res EXCEPT ![t] = NoNewImageAvailableYet]
    /\ at' = after(t)
    /\ UNCHANGED <<owner, _image, frames, image_frame>>

\* two callers read the image of one capture
ImageThreads == {"caller1", "caller2"}

ImageNext ==
    \/ device_delivers_a_frame
    \/ \E capture_error \in CaptureErrors : device_fails(capture_error)
    \/ \E t \in ImageThreads : image_enter(t)
    \/ \E t \in ImageThreads : image_lock(t)
    \/ \E t \in ImageThreads : image_move(t)
    \/ \E t \in ImageThreads : image_consume(t)
    \/ \E t \in ImageThreads : image_unlock(t)
    \/ \E t \in ImageThreads : image_return(t)

ImageSpec == Init /\ [][ImageNext]_vars

(***************************************************************************)
(* The Manager with the operations that only read: selected_resolution     *)
(* (and default_resolution through it), and CaptureImpl::image on one      *)
(* caller thread.                                                          *)
(***************************************************************************)
\* the thread that reads the image
Reader == "caller2"

SessionNext ==
    \/ \E id \in CallerIds : open_or_get_webcam(id)
    \/ \E s \in Sessions : drop_shared_webcam(s)
    \/ \E id \in CallerIds : request_a_restart_of_the_capture_if_it_exists(id)
    \/ request_a_restart_return
    \/ poll_thread_steps
    \/ \E id \in CallerIds : selected_resolution_call(id)
    \/ image_enter(Reader)
    \/ image_lock(Reader)
    \/ image_move(Reader)
    \/ image_consume(Reader)
    \/ image_unlock(Reader)
    \/ image_return(Reader)

SessionSpec == Init /\ [][SessionNext]_vars

(***************************************************************************)
(* Properties.                                                             *)
(***************************************************************************)
\* the for loop of update has reached the end of its copy: the end of a pass
EndOfPass == pc = "loop" /\ pending = {}

\* the lists grab_all_infos can return to update
EnumeratedLists ==
    {grab_all_infos(attached, reported) :
        attached \in SUBSET DeviceIds, reported \in [DeviceIds -> ReportedResolutions]}

\* the objects that existed when this pass copied _current_requests
InThisPass(s) == s \in 1..created_at_copy

\* C1: at most one live WebcamRequest exists per DeviceId, whatever the
\* interleaving of open_or_get_webcam calls and the poll thread; the live one
\* is the one _current_requests resolves to, so that open_or_get_webcam
\* returns it instead of creating a second one.
C1_AtMostOneLiveSessionPerDevice ==
    /\ \A s, t \in Sessions :
          (Alive(s) /\ Alive(t) /\ req_id[s] = req_id[t]) => s = t
    /\ \A s \in Sessions :
          Alive(s) => _current_requests[req_id[s]] = s

\* two handles share one object while the poll thread works on it
C1_Witness ==
    \E s \in Sessions : shared_webcams[s] = 2 /\ request = s /\ pc = "assign"

\* C4: a destroyed WebcamRequest has no owner and gets none (its weak_ptr
\* does not resolve, no handle is made for it), and an entry of
\* _current_requests is only ever replaced when it is empty or stale, by a
\* freshly created object in state CaptureNotInitYet with one handle.
C4_FreshSessionAfterDestruction ==
    [][ /\ \A s \in Sessions :
              destroyed'[s] > 0 => (use_count(s))' = 0
        /\ \A id \in DeviceIds :
              LET old == _current_requests[id]
                  new == _current_requests'[id]
              IN  new # old =>
                     /\ old = NoSession \/ destroyed[old] > 0
                     /\ new = created + 1
                     /\ created' = new
                     /\ req_id'[new] = id
                     /\ maybe_capture'[new] = CaptureNotInitYet
                     /\ shared_webcams'[new] = 1
                     /\ destroyed'[new] = 0
      ]_vars

\* the copy of the pass still names the destroyed object of a device whose
\* entry now names a fresh one
C4_Witness ==
    \E id \in DeviceIds :
        LET old == current_requests[id]
            new == _current_requests[id]
        IN  /\ old # NoSession /\ new # NoSession /\ old # new
            /\ destroyed[old] = 1
            /\ Alive(new) /\ req_id[new] = id
            /\ maybe_capture[new] = CaptureNotInitYet

C5_ActiveOnlyIfInSnapshot ==
    \A s \in Sessions :
        (Alive(s) /\ maybe_capture[s].tag = "Capture") =>
            req_id[s] \in InfoIds(_infos)

\* C5, amended: an object that holds a Capture belongs to a device of the
\* latest _infos, except from the moment update replaced _infos until the
\* same pass reaches that object.
C5_ActiveOnlyIfInSnapshotOrNotYetVisited ==
    \A s \in Sessions :
        (Alive(s) /\ maybe_capture[s].tag = "Capture"
                  /\ req_id[s] \notin InfoIds(_infos)) =>
            \/ pc = "copy"
            \/ (req_id[s] \in pending /\ current_requests[req_id[s]] = s)

\* a Capture of a device that left _infos, waiting for the loop to reach it
C5_Witness ==
    \E s \in Sessions :
        /\ Alive(s) /\ maybe_capture[s].tag = "Capture"
        /\ req_id[s] \notin InfoIds(_infos)
        /\ pc = "loop" /\ req_id[s] \in pending

\* C6: when a pass ends, every object that was alive when the pass copied
\* _current_requests and still is, and whose device is missing from the
\* _infos that the pass stored, was set to Error_WebcamUnplugged by that
\* pass (and still holds it unless a restart was requested since).
C6_UnpluggedByTheEndOfThePass ==
    EndOfPass =>
        \A s \in Sessions :
            (Alive(s) /\ InThisPass(s) /\ req_id[s] \notin InfoIds(_infos)) =>
                /\ did[s].poller = "unplugged"
                /\ maybe_capture[s] = IF did[s].restarted
                                      THEN CaptureNotInitYet
                                      ELSE Error_WebcamUnplugged

\* the first object held a Capture, its device left _infos, and the pass
\* that stored that _infos has ended
C6_Witness ==
    /\ EndOfPass
    /\ Alive(1) /\ InThisPass(1) /\ shared_webcams[1] > 0
    /\ req_id[1] \notin InfoIds(_infos)
    /\ phase = 2
    /\ maybe_capture[1] = Error_WebcamUnplugged

\* C7: an object whose device has been in no _infos since the object was
\* created holds CaptureNotInitYet or Error_WebcamUnplugged, never a
\* Capture; update attempts no open for it; and every pass that copied its
\* entry sets it to Error_WebcamUnplugged.
C7_AbsentDeviceIsNeverOpened ==
    \A s \in Sessions :
        (Alive(s) /\ ~ever_plugged[s]) =>
            /\ maybe_capture[s] \in {CaptureNotInitYet, Error_WebcamUnplugged}
            /\ (request = s => pc = "release")
            /\ ((EndOfPass /\ InThisPass(s)) => did[s].poller = "unplugged")

\* a held object of a device that was never in _infos, at the end of the
\* pass that reached it
C7_Witness ==
    /\ EndOfPass
    /\ \E s \in Sessions :
          /\ Alive(s) /\ shared_webcams[s] > 0 /\ ~ever_plugged[s]
          /\ InThisPass(s)
          /\ maybe_capture[s] = Error_WebcamUnplugged

\* what C8 says of the end of a pass: an object of the pass whose device is
\* in _infos was opened or kept, and holds a Capture unless the open failed
\* or a restart was requested; one whose device is not was set to
\* Error_WebcamUnplugged
C8_AtTheEndOfAPass ==
    EndOfPass =>
        \A s \in Sessions :
            (Alive(s) /\ InThisPass(s)) =>
                IF req_id[s] \in InfoIds(_infos)
                THEN /\ did[s].poller \in {"kept", "opened", "open failed"}
                     /\ (did[s].poller \in {"kept", "opened"} /\ ~did[s].restarted)
                            => maybe_capture[s].tag = "Capture"
                ELSE did[s].poller = "unplugged"

\* C8: with the handle held and the opens succeeding, the passes alone take
\* one and the same object to a Capture while its device is enumerated, to
\* Error_WebcamUnplugged when it is not, and to a Capture again when it is
\* back: no step of the poll thread creates an object, changes an entry of
\* _current_requests or makes a handle.
C8_ReplugReopensTheSameSession ==
    [][ /\ C8_AtTheEndOfAPass'
        /\ (pc' # pc \/ pending' # pending) =>
              /\ created' = created
              /\ _current_requests' = _current_requests
              /\ shared_webcams' = shared_webcams
      ]_vars

\* the one object ever created went Capture, Error_WebcamUnplugged, Capture
\* under its one handle
C8_Witness ==
    /\ EndOfPass
    /\ created = 1 /\ shared_webcams[1] = 1
    /\ phase = 3
    /\ did[1] = PollerDid("opened")
    /\ maybe_capture[1].tag = "Capture"

\* C9 as claimed: an open that fails with a CaptureError is recorded in
\* the object by the poll thread, which goes on with its pass.
C9_TypedOpenFailureIsRecorded ==
    capture.value \in CaptureErrors => pc = "assign"

\* C10 as claimed: a failure of the enumeration never ends the poll loop.
C10_EnumerationFailureKeepsThePollLoop ==
    uncaught = "std::runtime_error from grab_all_infos_impl" => pc # "terminated"

\* C11: a call of set_selected_resolution with the value already stored for
\* the id changes nothing and requests no restart; with another value (or
\* none stored) it stores the value and then calls the restart function
\* once, which sets the live WebcamRequest of the id, if there is one, to
\* CaptureNotInitYet and touches nothing if there is none.
C11_SetStoresAndRestartsOnce ==
    [][ /\ (returned' # returned \/ _selected_resolutions' # _selected_resolutions) =>
              LET call == returned'[1]
              IN  /\ returned' = <<SetCall(call.id, call.resolution,
                                           _selected_resolutions[call.id])>>
                  /\ set_pending = "none"
                  /\ UNCHANGED <<manager_vars, object_vars, restart_request>>
                  /\ IF call.stored = call.resolution
                     THEN UNCHANGED <<_selected_resolutions, set_pending>>
                     ELSE /\ _selected_resolutions' =
                                [_selected_resolutions EXCEPT ![call.id] = call.resolution]
                          /\ set_pending' = call.id
        /\ (set_pending # "none" /\ set_pending' = "none") =>
              LET live == lock(_current_requests[set_pending])
              IN  /\ UNCHANGED <<manager_vars, _selected_resolutions, created, req_id,
                                 shared_webcams, destroyed>>
                  /\ IF ~_wants_to_stop_thread /\ live # NoSession
                     THEN /\ maybe_capture' =
                                [maybe_capture EXCEPT ![live] = CaptureNotInitYet]
                          /\ restart_request' = live
                     ELSE UNCHANGED <<maybe_capture, restart_request>>
        /\ (set_pending' # "none" /\ set_pending = "none") =>
              _selected_resolutions' # _selected_resolutions
      ]_vars

\* a new value was stored over an older one for a device whose WebcamRequest
\* holds a Capture, and the restart is about to be requested
C11_Witness ==
    /\ set_pending # "none"
    /\ returned[1].stored \in Resolutions
    /\ returned[1].resolution # returned[1].stored
    /\ \E s \in Sessions :
          /\ Alive(s) /\ req_id[s] = set_pending /\ shared_webcams[s] > 0
          /\ maybe_capture[s].tag = "Capture"

\* C12 as claimed: once set_selected_resolution has stored a new value and
\* requested the restart, the WebcamRequest of that device does not stay
\* with a Capture opened at another resolution: a pass of update that found
\* it holding a Capture and kept it, with no restart requested since, found
\* a Capture opened at the stored resolution.
C12_NewResolutionTakesEffect ==
    (EndOfPass /\ ~_wants_to_stop_thread
               /\ set_pending = "none" /\ restart_request = NoSession) =>
        \A s \in Sessions :
            (/\ Alive(s) /\ InThisPass(s) /\ shared_webcams[s] > 0
             /\ did[s] = PollerDid("kept")
             /\ _selected_resolutions[req_id[s]] # NoResolution) =>
                maybe_capture[s] = Capture(_selected_resolutions[req_id[s]])

\* C14: an entry of _selected_resolutions changes only in a call of
\* set_selected_resolution for its id, to the value of that call, and is
\* never removed: every other step (enumeration with or without the device,
\* handle drop, destruction of the WebcamRequest, restart request, any step
\* of a pass, ~Manager) leaves _selected_resolutions as it is.
C14_OnlySetChangesThePreference ==
    [][ \A id \in DeviceIds :
           /\ _selected_resolutions[id] # NoResolution =>
                 _selected_resolutions'[id] # NoResolution
           /\ _selected_resolutions'[id] # _selected_resolutions[id] =>
                 /\ returned' = <<SetCall(id, _selected_resolutions'[id],
                                          _selected_resolutions[id])>>
                 /\ set_pending = "none" /\ set_pending' = id
                 /\ \A other \in DeviceIds \ {id} :
                       _selected_resolutions'[other] = _selected_resolutions[other]
      ]_vars

\* the preference of a device is still stored after the device left _infos,
\* its WebcamRequest was destroyed and the Manager's poll thread has exited
C14_Witness ==
    /\ _selected_resolutions["Cam-A"] = R_small
    /\ "Cam-A" \notin InfoIds(_infos)
    /\ destroyed[1] = 1 /\ req_id[1] = "none"
    /\ phase = 0 /\ created = 1
    /\ _wants_to_stop_thread /\ pc = "exited"

\* C13: a call of selected_resolution returns the entry of
\* _selected_resolutions for the id when there is one, and otherwise what
\* default_resolution returns for the id in the same state; the call leaves
\* _selected_resolutions as it is.
C13_SelectedResolutionIsTheStoredOrTheDefault ==
    [][ (returned' # returned /\ returned'[1].op = "selected_resolution") =>
           LET id == returned'[1].id
           IN  /\ returned'[1].resolution =
                     IF _selected_resolutions[id] # NoResolution
                     THEN _selected_resolutions[id]
                     ELSE default_resolution(id)
               /\ UNCHANGED <<_selected_resolutions, _infos>>
      ]_vars

\* selected_resolution returned the stored preference of a device whose
\* best enumerated resolution is another one
C13_Witness ==
    /\ returned # <<>>
    /\ returned[1] = ResolutionCall("selected_resolution", "Cam-A", R_small)
    /\ _selected_resolutions["Cam-A"] = R_small
    /\ default_resolution("Cam-A") = R_big

\* C15: default_resolution returns <<1, 1>> for an id that is not in _infos
\* (or whose list is empty), and otherwise the first resolution of the
\* device's list, which no other resolution of the list precedes in the
\* order pixels descending, then width descending.
C15_DefaultIsTheSentinelOrTheBest ==
    (returned # <<>> /\ returned[1].op = "default_resolution") =>
        LET id == returned[1].id
            value == returned[1].resolution
            listed == {i \in 1..Len(_infos) : _infos[i].id = id}
        IN  IF listed = {} THEN value = <<1, 1>>
            ELSE \A i \in listed :
                    LET resolutions == _infos[i].resolutions
                    IN  IF resolutions = <<>> THEN value = <<1, 1>>
                        ELSE /\ value = resolutions[1]
                             /\ \A k \in 1..Len(resolutions) :
                                   \/ resolutions[k] = value
                                   \/ value[1] * value[2] > resolutions[k][1] * resolutions[k][2]
                                   \/ /\ value[1] * value[2] = resolutions[k][1] * resolutions[k][2]
                                      /\ value[1] > resolutions[k][1]

\* default_resolution returned the widest of two resolutions of equal pixel
\* count, out of a list of three
C15_Witness ==
    /\ returned # <<>>
    /\ returned[1] = ResolutionCall("default_resolution", "Cam-A", R_big)
    /\ \E i \in 1..Len(_infos) :
          _infos[i].id = "Cam-A" /\ _infos[i].resolutions = <<R_big, R_tall, R_small>>

\* C17: for every list of resolutions a device reports, in any order and with
\* any duplicates, the list that grab_all_infos returns for the device holds
\* exactly the resolutions of the input, each once, in strictly descending
\* order of pixel count and then of width, so that no two of its entries
\* have the same pixel count and width; <<R_small, R_big, R_big>> becomes
\* <<R_big, R_small>>.
C17_ResolutionsSortedAndDeduplicated ==
    (returned # <<>> /\ returned[1].op = "grab_all_infos") =>
        \A i \in 1..Len(returned[1].infos) :
            LET input == returned[1].reported[returned[1].infos[i].id]
                output == returned[1].infos[i].resolutions
            IN  /\ {output[k] : k \in 1..Len(output)} = {input[k] : k \in 1..Len(input)}
                /\ \A k \in 1..(Len(output) - 1) :
                      \/ output[k][1] * output[k][2] > output[k + 1][1] * output[k + 1][2]
                      \/ /\ output[k][1] * output[k][2] = output[k + 1][1] * output[k + 1][2]
                         /\ output[k][1] > output[k + 1][1]
                /\ \A j, k \in 1..Len(output) :
                      j # k => <<output[j][1] * output[j][2], output[j][1]>>
                                  # <<output[k][1] * output[k][2], output[k][1]>>
                /\ input = <<R_small, R_big, R_big>> => output = <<R_big, R_small>>

\* a list with a duplicate that is not next to its twin, and two resolutions
\* of equal pixel count, was sorted and deduplicated
C17_Witness ==
    /\ returned # <<>>
    /\ returned[1].op = "grab_all_infos"
    /\ returned[1].reported["Cam-A"] = <<R_tall, R_big, R_tall>>
    /\ \E i \in 1..Len(_infos) :
          _infos[i].id = "Cam-A" /\ _infos[i].resolutions = <<R_big, R_tall>>

\* C16: whatever infos(), is_plugged_in or default_resolution reads is one
\* whole list that one call of grab_all_infos returned (sorted and
\* deduplicated), never a list that update is in the middle of assigning;
\* is_plugged_in answers true exactly when that list has an Info with the id.
C16_ReadersSeeOneCompleteList ==
    /\ \A t \in Threads :
          (t # "poll" /\ StatementOf(t) = Stmt("read", "_infos")) =>
              ~HalfWritten("_infos")
    /\ (returned # <<>> /\ returned[1].op \in {"infos", "is_plugged_in",
                                               "default_resolution", "selected_resolution"}) =>
          LET seen == returned[1].infos
          IN  /\ seen \in EnumeratedLists
              /\ \A i \in 1..Len(seen) : \A k \in 1..(Len(seen[i].resolutions) - 1) :
                    LET a == seen[i].resolutions[k]
                        b == seen[i].resolutions[k + 1]
                    IN  a[1] * a[2] > b[1] * b[2] \/ (a[1] * a[2] = b[1] * b[2] /\ a[1] > b[1])
              /\ returned[1].op = "is_plugged_in" =>
                    (returned[1].found <=> returned[1].id \in InfoIds(seen))

\* a caller has read the list in place under _infos_mutex while the poll
\* thread waits for the mutex with the next list in hand
C16_Witness ==
    /\ StatementOf("caller1") = Stmt("unlock", "_infos_mutex")
    /\ at["caller1"].op = "is_plugged_in"
    /\ returned # <<>> /\ returned[1].op = "is_plugged_in" /\ returned[1].found
    /\ returned[1].infos = _infos
    /\ at["poll"].stmt = 2 /\ StatementOf("poll") = Stmt("lock", "_infos_mutex")
    /\ infos # _infos

\* C18: no thread ever holds _infos_mutex and _captures_mutex together,
\* whichever operation it is in; hence a thread that holds a mutex is never
\* itself waiting for the other one.
C18_NeverBothMutexes ==
    /\ \A t \in Threads : ~({"_infos_mutex", "_captures_mutex"} \subseteq held(t))
    /\ \A t \in Threads :
          (StatementOf(t).do = "lock" /\ owner[StatementOf(t).on] # "free") =>
              LET holder == owner[StatementOf(t).on]
              IN  ~(StatementOf(holder).do = "lock"
                    /\ owner[StatementOf(holder).on] # "free")

\* the two mutexes are held at the same time, by two threads: a caller is
\* in the restart function while update assigns _infos
C18_Witness ==
    /\ owner["_captures_mutex"] = "caller1"
    /\ at["caller1"].op = "set_selected_resolution"
    /\ owner["_infos_mutex"] = "poll"
    /\ StatementOf("poll") = Stmt("written", "_infos")

\* C19 as claimed: no operation of a caller waits for the hardware: a call
\* into the hardware is only ever in progress on the poll thread, and with
\* no mutex held.
C19_HardwareOnlyOnThePollThreadUnlocked ==
    \A t \in Threads :
        StatementOf(t).do = "io" => (t = "poll" /\ held(t) = {})

\* C19, amended: an enumeration or the opening of a capture is only ever in
\* progress on the poll thread, with no mutex held, and open_or_get_webcam
\* makes no call into the hardware; the closing of a capture is not covered:
\* it runs on the thread that overwrites or releases the Capture.
C19_EnumerationAndOpenOnThePollThreadUnlocked ==
    \A t \in Threads :
        /\ (StatementOf(t).do = "io" /\ StatementOf(t).on \in {"enumerate", "open"}) =>
              (t = "poll" /\ held(t) = {})
        /\ at[t].op = "open_or_get_webcam" => StatementOf(t).do # "io"

\* open_or_get_webcam holds _captures_mutex and goes on while the poll
\* thread is inside the constructor of a Capture
C19_Witness ==
    /\ StatementOf("poll") = Stmt("io", "open")
    /\ at["caller1"].op = "open_or_get_webcam"
    /\ owner["_captures_mutex"] = "caller1"
    /\ StatementOf("caller1") = Stmt("write", "_current_requests")

\* C20: image() hands each frame of the device to at most one call: the
\* frames returned (and those held by a call that has yet to return) are
\* frames the device produced, each at most once, whatever the interleaving
\* of the callers and of the device; once a call has taken a frame, _image
\* holds NoNewImageAvailableYet until the device delivers again; a stored
\* NoNewImageAvailableYet or CaptureError is returned as it is and stays.
C20_EachFrameIsReturnedAtMostOnce ==
    /\ \A i \in 1..Len(returned) :
          returned[i].tag = "Image" =>
              /\ returned[i].frame \in 1..frames
              /\ \A j \in 1..Len(returned) : j # i => returned[j] # returned[i]
              /\ \A t \in Threads : res[t] # returned[i]
    /\ \A t \in Threads :
          res[t].tag = "Image" =>
              /\ res[t].frame \in 1..frames
              /\ \A u \in Threads \ {t} : res[u] # res[t]
    /\ \A t \in Threads :
          /\ StatementOf(t) = Stmt("consume", "_image") =>
                (res[t].tag # "Image" => _image = res[t])
          /\ StatementOf(t) = Stmt("unlock", "_mutex") =>
                _image = IF res[t].tag = "Image" THEN NoNewImageAvailableYet ELSE res[t]

\* a frame was returned, the next call found no new image, and the call
\* after it returned the frame the device had produced in between
C20_Witness ==
    returned = <<Image(1), NoNewImageAvailableYet, Image(2)>>

\* C21 as claimed: the accesses to the maybe_capture of one WebcamRequest
\* exclude one another: no two threads are at an access of the
\* maybe_capture of the same device at the same time, one of them writing.
C21_SessionAccessesAreExclusive ==
    \A t, u \in Threads :
        (/\ t # u
         /\ StatementOf(t) = Stmt("write", "maybe_capture")
         /\ StatementOf(u).on = "maybe_capture"
         /\ StatementOf(u).do \in {"read", "write"})
            => at[t].id # at[u].id

\* C22: a call of request_a_restart_of_the_capture_if_it_exists(id) sets the
\* live WebcamRequest of the id, if there is one, to CaptureNotInitYet and
\* changes nothing else; with no entry for the id, or an entry that has
\* expired, it changes nothing at all: no WebcamRequest is created or
\* written, no handle is made, and _current_requests, _infos and
\* _selected_resolutions stay as they are.
C22_RestartWritesTheLiveSessionOnly ==
    [][ (returned = <<>> /\ returned' # <<>>) =>
           LET id == returned'[1].id
               live == lock(_current_requests[id])
           IN  /\ returned' = <<RestartCall(id)>>
               /\ UNCHANGED <<manager_vars, _selected_resolutions, created, req_id,
                              shared_webcams, destroyed, poller_vars>>
               /\ IF live # NoSession
                  THEN /\ maybe_capture' =
                             [maybe_capture EXCEPT ![live] = CaptureNotInitYet]
                       /\ restart_request' = live
                  ELSE UNCHANGED <<maybe_capture, restart_request>>
      ]_vars

\* the restart function was called for a device whose entry has expired,
\* and has changed nothing
C22_Witness ==
    /\ returned = <<RestartCall("Cam-A")>>
    /\ _current_requests["Cam-A"] = 1
    /\ destroyed[1] = 1 /\ maybe_capture[1] = NoObject
    /\ created = 1
    /\ restart_request = NoSession

\* C23: ~Manager sets _wants_to_stop_thread and returns only after
\* thread_job has returned; the poll thread leaves only at the test of its
\* while loop, so that the pass in flight runs to its end; once the flag is
\* set the test lets no further pass begin; and with the poll thread
\* scheduled and every pass coming to its end, ~Manager returns.
C23_TeardownJoinsThePollThread ==
    /\ []((_wants_to_stop_thread /\ at[Destroyer] = Idle) => pc = "exited")
    /\ [][ /\ at'[Destroyer] = AtJoin => _wants_to_stop_thread'
           /\ (pc' = "exited" /\ pc # "exited") => (pc = "check" /\ _wants_to_stop_thread)
           /\ (_wants_to_stop_thread /\ pc = "check") => pc' \in {"check", "exited"}
           /\ _wants_to_stop_thread => _wants_to_stop_thread'
       ]_vars
    /\ (_wants_to_stop_thread ~> (pc = "exited" /\ at[Destroyer] = Idle))

\* ~Manager waits in join while the pass in flight is about to assign the
\* Capture it has just opened
C23_Witness ==
    /\ at[Destroyer] = AtJoin
    /\ _wants_to_stop_thread
    /\ pc = "assign" /\ capture.tag = "Capture"

\* C24: the poll thread leaves alone a WebcamRequest that holds a Capture
\* and whose device is in _infos: the iteration that reaches it keeps it and
\* goes on without an open, no step of the poll thread changes its
\* maybe_capture (short of releasing the last owner of the object), and no
\* Capture is ever under construction or about to be assigned for an object
\* that holds one.
C24_ActiveSessionIsLeftUntouched ==
    /\ [](pc \in {"open", "assign"} => maybe_capture[request].tag # "Capture")
    /\ [][ \A s \in Sessions :
              (/\ Alive(s) /\ maybe_capture[s].tag = "Capture"
               /\ req_id[s] \in InfoIds(_infos)
               /\ (pc' # pc \/ pending' # pending)) =>
                  /\ maybe_capture'[s] = maybe_capture[s] \/ destroyed'[s] > destroyed[s]
                  /\ (pc = "loop" /\ request' = s) =>
                        (pc' = "release" /\ did'[s] = PollerDid("kept"))
       ]_vars

\* the pass has reached an object that holds a Capture since an earlier
\* pass, found its device in _infos, and goes on
C24_Witness ==
    \E s \in Sessions :
        /\ pc = "release" /\ request = s
        /\ did[s] = PollerDid("kept")
        /\ maybe_capture[s] = Capture(R_big)
        /\ req_id[s] \in InfoIds(_infos)
        /\ shared_webcams[s] > 0

C27_ThePassWorksOnItsCopy ==
    /\ [](\A s \in Sessions :
             (Alive(s) /\ ~InThisPass(s)) =>
                 (maybe_capture[s] = CaptureNotInitYet /\ request # s))
    /\ [](EndOfPass =>
             \A s \in Sessions :
                 (Alive(s) /\ InThisPass(s)) => did[s].poller # "nothing")
    /\ [][ /\ _current_requests' # _current_requests =>
                 UNCHANGED <<current_requests, pending, pc, request, capture, _infos>>
           /\ (pc = "copy" /\ pc' # pc) =>
                 /\ captures_mutex_free
                 /\ current_requests' = _current_requests
                 /\ pending' = {id \in DeviceIds : _current_requests[id] # NoSession}
                 /\ created_at_copy' = created
           /\ (pc # "copy" /\ pc' # "check") => current_requests' = current_requests
       ]_vars

\* a pass has ended that opened the capture of the first object; the second
\* object, created for an enumerated device after the pass made its copy,
\* was not reached
C27_Witness ==
    /\ EndOfPass
    /\ created_at_copy = 1 /\ created = 2
    /\ Alive(2) /\ req_id[2] \in InfoIds(_infos)
    /\ did[2] = Nothing /\ maybe_capture[2] = CaptureNotInitYet
    /\ Alive(1) /\ did[1] = PollerDid("opened")

\* a handle to object s is held
Held(s) == shared_webcams[s] > 0

\* C28: with the poll thread scheduled, an object whose handle is held and
\* whose device is in _infos comes to hold a Capture, unless before that the
\* handle is dropped, the device leaves _infos, an open fails or the Manager
\* is destroyed; and an object that holds a Capture keeps it, the same one,
\* until a pass finds its device missing from _infos (Error_WebcamUnplugged),
\* the restart function is called for it (CaptureNotInitYet), or its last
\* owner releases it.
C28_HeldSessionBecomesAndStaysActive ==
    /\ \A s \in Sessions :
          (Held(s) /\ req_id[s] \in InfoIds(_infos)) ~>
              \/ maybe_capture[s].tag = "Capture"
              \/ ~Held(s)
              \/ req_id[s] \notin InfoIds(_infos)
              \/ (request = s /\ capture.tag = "CaptureException")
              \/ _wants_to_stop_thread
    /\ [][ \A s \in Sessions :
              (maybe_capture[s].tag = "Capture" /\ maybe_capture'[s] # maybe_capture[s]) =>
                  \/ /\ maybe_capture'[s] = Error_WebcamUnplugged
                     /\ req_id[s] \notin InfoIds(_infos)
                     /\ pc = "loop" /\ request' = s
                  \/ /\ maybe_capture'[s] = CaptureNotInitYet
                     /\ restart_request = NoSession /\ restart_request' = s
                  \/ /\ maybe_capture'[s] = NoObject
                     /\ use_count(s) = 1 /\ destroyed'[s] = 1
       ]_vars

\* the one object, held by two handles, holds a Capture and the poll thread
\* is at the test of its loop, nobody having asked it to stop
C28_Witness ==
    /\ pc = "check" /\ ~_wants_to_stop_thread
    /\ created = 1 /\ shared_webcams[1] = 2
    /\ maybe_capture[1].tag = "Capture"
    /\ req_id[1] \in InfoIds(_infos)
    /\ restart_request = NoSession

\* C29: the maybe_capture of a WebcamRequest changes only in these steps:
\* its creation, into CaptureNotInitYet; the assignment of the try block or
\* of the catch clause by the poll thread, from a value that is no Capture,
\* into the Capture just opened or the error of the CaptureException; the
\* unplugged branch of the poll thread, into Error_WebcamUnplugged, for a
\* device missing from _infos; the restart function, into CaptureNotInitYet;
\* and its destruction.  Hence a Capture is replaced by CaptureNotInitYet
\* only by the restart function and by an error only by the poll thread and
\* only by Error_WebcamUnplugged; and default_resolution,
\* selected_resolution and CaptureImpl::image change no WebcamRequest.
C29_OnlyTheseSessionTransitions ==
    [][ /\ \A s \in Sessions :
              maybe_capture'[s] # maybe_capture[s] =>
                  \/ /\ maybe_capture[s] = NoObject
                     /\ maybe_capture'[s] = CaptureNotInitYet
                     /\ created = s - 1 /\ created' = s
                     /\ shared_webcams'[s] = 1
                  \/ /\ pc = "assign" /\ pc' = "release" /\ request = s
                     /\ maybe_capture[s].tag # "Capture"
                     /\ maybe_capture'[s] = capture.value
                     /\ \/ capture.tag = "Capture" /\ capture.value.tag = "Capture"
                        \/ capture.tag = "CaptureException" /\ capture.value \in CaptureErrors
                  \/ /\ pc = "loop" /\ pc' = "release" /\ request' = s
                     /\ req_id[s] \notin InfoIds(_infos)
                     /\ maybe_capture'[s] = Error_WebcamUnplugged
                  \/ /\ restart_request = NoSession /\ restart_request' = s
                     /\ Alive(s)
                     /\ maybe_capture'[s] = CaptureNotInitYet
                  \/ /\ maybe_capture'[s] = NoObject
                     /\ use_count(s) = 1 /\ destroyed'[s] = 1
        /\ (returned' # returned \/ at' # at \/ owner' # owner \/ _image' # _image) =>
              UNCHANGED <<object_vars, _current_requests>>
      ]_vars

\* a caller is inside the restart function for an object that the pass in
\* progress had opened, after calls of selected_resolution and of image()
C29_Witness ==
    /\ \E s \in Sessions :
          /\ restart_request = s
          /\ did[s] = [poller |-> "opened", restarted |-> TRUE]
          /\ maybe_capture[s] = CaptureNotInitYet
    /\ returned = <<ResolutionCall("selected_resolution", "Cam-A", R_big),
                    NoNewImageAvailableYet>>

\* C30 as claimed: a call of set_selected_resolution and a call of
\* selected_resolution (on the poll thread or on another caller thread)
\* never access _selected_resolutions at the same time: no thread is at its
\* write of the map while another thread is at a read or a write of it.
C30_PreferenceAccessesAreExclusive ==
    \A t, u \in Threads :
        (/\ t # u
         /\ StatementOf(t) = Stmt("write", "_selected_resolutions")
         /\ StatementOf(u).on = "_selected_resolutions")
            => StatementOf(u).do \notin {"read", "write"}

\* C31: every Info of the snapshot _infos, and of the list the poll thread
\* is about to store, has a non-empty resolution list; the device of the
\* request the poll thread is opening a Capture for is listed in _infos;
\* and when that device has no entry in _selected_resolutions, the Capture
\* is constructed with the first resolution of the device's list in _infos,
\* which is not the {1, 1} that default_resolution returns for a device it
\* does not find.
C31_OpenNeverRequestsTheSentinel ==
    /\ [](/\ \A i \in 1..Len(_infos) : _infos[i].resolutions # <<>>
          /\ \A i \in 1..Len(infos) : infos[i].resolutions # <<>>
          /\ pc = "open" => req_id[request] \in InfoIds(_infos))
    /\ [][ (/\ pc = "open" /\ pc' = "assign"
            /\ capture'.tag = "Capture"
            /\ _selected_resolutions[req_id[request]] = NoResolution)
              => \E i \in 1..Len(_infos) :
                    /\ _infos[i].id = req_id[request]
                    /\ \A j \in 1..(i - 1) : _infos[j].id # req_id[request]
                    /\ capture'.value = Capture(_infos[i].resolutions[1])
                    /\ capture'.value.res # <<1, 1>>
         ]_vars

\* the poll thread has constructed a Capture with the first of the two
\* resolutions of the only listed device, which has no stored resolution,
\* while the other device has one
C31_Witness ==
    /\ pc = "assign"
    /\ Len(_infos) = 1
    /\ Len(_infos[1].resolutions) = 2
    /\ req_id[request] = _infos[1].id
    /\ _selected_resolutions[_infos[1].id] = NoResolution
    /\ \E d \in DeviceIds : _selected_resolutions[d] = R_small
    /\ capture = [tag |-> "Capture", value |-> Capture(_infos[1].resolutions[1])]

\* C32: _current_requests has one entry per DeviceId at most, each naming an
\* object that was created; no step removes an entry; an entry changes only
\* in a step of open_or_get_webcam for its id, when it was absent or did not
\* lock, into the object just created with one handle, the other entries
\* being left alone; and an entry that does not lock and is not replaced
\* still does not lock after the step.  The copy the poll thread takes is
\* the whole map, expired entries included.
C32_TheMapIsNeverPruned ==
    /\ [](/\ _current_requests \in [DeviceIds -> Sessions \cup {NoSession}]
          /\ \A id \in DeviceIds :
                _current_requests[id] # NoSession =>
                    /\ _current_requests[id] \in 1..created
                    /\ \A other \in DeviceIds \ {id} :
                          _current_requests[other] # _current_requests[id]
                    /\ destroyed[_current_requests[id]] = 1 =>
                          lock(_current_requests[id]) = NoSession)
    /\ [][ /\ \A id \in DeviceIds :
                /\ _current_requests[id] # NoSession => _current_requests'[id] # NoSession
                /\ _current_requests'[id] # _current_requests[id] =>
                      /\ lock(_current_requests[id]) = NoSession
                      /\ created' = created + 1
                      /\ _current_requests'[id] = created'
                      /\ req_id'[created'] = id
                      /\ shared_webcams'[created'] = 1
                      /\ \A other \in DeviceIds \ {id} :
                            _current_requests'[other] = _current_requests[other]
                /\ (/\ _current_requests[id] # NoSession
                    /\ lock(_current_requests[id]) = NoSession
                    /\ _current_requests'[id] = _current_requests[id])
                      => lock(_current_requests[id])' = NoSession
           /\ (pc = "copy" /\ pc' = "loop") =>
                /\ current_requests' = _current_requests
                /\ _current_requests' = _current_requests
         ]_vars

\* at the end of a pass the entry of a destroyed object is still in the map,
\* and in the copy the pass worked on, next to the entry of a live object
\* of the other device
C32_Witness ==
    /\ EndOfPass
    /\ \E id \in DeviceIds :
          /\ _current_requests[id] # NoSession
          /\ destroyed[_current_requests[id]] = 1
          /\ current_requests[id] = _current_requests[id]
          /\ \E other \in DeviceIds \ {id} :
                /\ Alive(_current_requests[other])
                /\ current_requests[other] = _current_requests[other]

====
